---- MODULE Spec2Model ----
(***************************************************************************)
(* Freehand Notes plugin (ObsidiDraw).  src/unnamed/part_000 holds the two *)
(* variants of the plugin:                                                 *)
(*   "snapshot" variant, lines 1-230  (async activation, Save/Close bar,   *)
(*              loadDrawing/saveDrawing, settings tab = Clear Drawing)     *)
(*   "settings" variant, lines 231-440 (sync activation, Close button,     *)
(*              settings tab = pen colour / pen width / show toolbar)      *)
(* The model is one state machine; the initial state fixes the variant.    *)
(*                                                                         *)
(* A persisted record / settings object is a TLA+ record (a function from  *)
(* key strings to values); JavaScript null is the record Null.             *)
(* A canvas pixel buffer is the list of marks painted on it, in order.     *)
(***************************************************************************)
EXTENDS Integers, Sequences, FiniteSets, TLC

\* ----------------------------------------------------------------- bounds
MaxActivations == 2     \* ribbon activations per plugin instance
MaxMarks == 1           \* marks painted by pointer events, all canvases together
MaxClock == 1           \* Date.now() readings (saveDrawing calls)
MaxPending == 1         \* saveData calls in flight at a time
MaxPoint == 2           \* pointer positions 1..MaxPoint

CanvasIds == 1..MaxActivations
Points == 1..MaxPoint
Colors == {"#000000", "#ff0000"}
Widths == {2, 5}
SettingKeys == {"penColor", "penWidth", "eraserSize", "showToolbar"}

Null == [isNull |-> TRUE]

\* DEFAULT_SETTINGS as the module defines it
InitialDefaults ==
    [penColor |-> "#000000", penWidth |-> 2, eraserSize |-> 10, showToolbar |-> TRUE]

\* a non-default value for each settings key
AltValue(k) ==
    CASE k = "penColor" -> "#ff0000"
      [] k = "penWidth" -> 5
      [] k = "eraserSize" -> 20
      [] OTHER -> FALSE

\* persisted records whose keys are a subset of the settings keys, every
\* stored value differing from the default
PartialRecords == { [k \in S |-> AltValue(k)] : S \in SUBSET SettingKeys }

\* ------------------------------------------------------------- JS objects
\* own enumerable keys of a source argument of Object.assign (null has none)
Keys(o) == IF o = Null THEN {} ELSE DOMAIN o

\* Object.assign({}, a, b)
ObjectAssign(a, b) ==
    [k \in Keys(a) \cup Keys(b) |-> IF k \in Keys(b) THEN b[k] ELSE a[k]]

\* savedData && savedData.drawing
HasDrawing(savedData) == savedData # Null /\ "drawing" \in DOMAIN savedData

\* ----------------------------------------------------------------- canvas
Mark(from, to, color, width, op) ==
    [from |-> from, to |-> to, color |-> color, width |-> width, op |-> op]

\* canvas.toDataURL(): a PNG data URI of the pixel buffer
toDataURL(px) == [mime |-> "image/png", pixels |-> px]

\* ctx.clearRect(0, 0, canvas.width, canvas.height)
clearRect(px) == << >>

\* ctx.drawImage(img, 0, 0) under compositing mode op: 'source-over' paints
\* the image over the canvas; 'destination-out' paints nothing and clears
\* the canvas where the image is opaque, which on an empty canvas leaves it
\* empty.
drawImage(px, src, op) ==
    IF op = "source-over" THEN px \o src.pixels
    ELSE IF px = << >> THEN << >>
    ELSE px \o [i \in 1..Len(src.pixels) |-> [src.pixels[i] EXCEPT !.op = op]]

\* ctx.beginPath()
beginPath == << >>

\* ctx.moveTo(p), always called right after beginPath
moveTo(pth, p) == pth \o <<p>>

\* ctx.lineTo(p).  On a path with no subpath the Canvas standard only sets
\* the start point; Blink also adds the zero-length line (emptyPaints).
lineTo(pth, p, emptyPaints) ==
    IF pth = << >>
    THEN IF emptyPaints THEN <<p, p>> ELSE <<p>>
    ELSE Append(pth, p)

\* ctx.stroke() with lineCap = lineJoin = 'round': every line of the path is
\* painted, a zero-length line as a round dot; a lone point paints nothing.
stroke(px, pth, color, width, op) ==
    IF Len(pth) >= 2
    THEN px \o [i \in 1..(Len(pth) - 1) |-> Mark(pth[i], pth[i + 1], color, width, op)]
    ELSE px

VARIABLES
    variant,            \* "snapshot" | "settings"
    data,               \* host storage: what loadData() returns
    DEFAULT_SETTINGS,   \* the module-level defaults object
    settings,           \* this.settings
    canvas,             \* this.canvas (0 = undefined)
    ctx,                \* this.ctx    (0 = undefined)
    toolbarEl,          \* this.toolbarEl (0 = undefined)
    isDrawing,          \* this.isDrawing (undefined is FALSE)
    currentTool,        \* this.currentTool
    nAct,               \* activations started so far
    pc,                 \* per activation: "none" | "loading" | "done"
    body,               \* children of document.body
    listeners,          \* per canvas: sets of pointer listeners attached
    pixels,             \* per canvas: pixel buffer
    path,               \* per context: current path
    gco,                \* per context: globalCompositeOperation
    images,             \* Image objects whose onload has not fired yet
    notices,            \* notifications shown
    consoleErrors,      \* console.error messages
    clock,              \* Date.now()
    pending,            \* saveData calls in flight, oldest first
    initialData,        \* host storage when the first instance loaded
    lastWrite,          \* the last saveData that settled, "none" before any
    reloaded,           \* onload() ran again since the last settled saveData
    blankExpected       \* canvases activated after Clear Drawing, not drawn on since

vars == << variant, data, DEFAULT_SETTINGS, settings, canvas, ctx, toolbarEl,
           isDrawing, currentTool, nAct, pc, body, listeners, pixels, path,
           gco, images, notices, consoleErrors, clock, pending, initialData,
           lastWrite, reloaded, blankExpected >>

CanvasEl(i) == <<"canvas", i>>
ToolbarEl(i) == <<"toolbar", i>>
ActionEl(i) == <<"action", i>>

\* ------------------------------------------------------------ settings
\* loadSettings with the merge order reversed: the defaults win
loadSettingsDefaultsWin(defaults, record) ==
    [settings |-> ObjectAssign(record, defaults), defaults |-> defaults]

\* loadSettings merging into DEFAULT_SETTINGS itself instead of a new object
loadSettingsInPlace(defaults, record) ==
    [settings |-> ObjectAssign(defaults, record),
     defaults |-> ObjectAssign(defaults, record)]

\* loadSettings: the live settings and what becomes of DEFAULT_SETTINGS
loadSettings(defaults, record) ==
    [settings |-> ObjectAssign(defaults, record), defaults |-> defaults]

\* saveSettings: the record handed to saveData
saveSettings(s) == s

\* saveDrawing adding the snapshot to the live settings instead of
\* replacing the record
SnapshotRecordMerged(imageData, now) ==
    ObjectAssign(settings, [drawing |-> imageData, timestamp |-> now])

\* the record saveDrawing hands to saveData
SnapshotRecord(imageData, now) == [drawing |-> imageData, timestamp |-> now]

\* `Obsidian` is not among the bindings of line 1, so `new Obsidian.Notice`
\* raises a ReferenceError instead of showing a notification.
ObsidianBound == FALSE

\* ------------------------------------------------------- pointer handlers
\* The handlers work on this.isDrawing and on the pixel buffer and path of
\* this.ctx; m is that part of the state.
Machine == [isDrawing |-> isDrawing, pixels |-> pixels[ctx], path |-> path[ctx]]

\* draw(e): strokeStyle and lineWidth are read from this.settings on each call
draw(m, p, emptyPaints) ==
    IF ~m.isDrawing
    THEN m
    ELSE LET lined == lineTo(m.path, p, emptyPaints)
             painted == stroke(m.pixels, lined, settings.penColor,
                               settings.penWidth, gco[ctx])
         IN  [isDrawing |-> TRUE, pixels |-> painted, path |-> moveTo(beginPath, p)]

\* startDrawing(e)
startDrawing(m, p, emptyPaints) == draw([m EXCEPT !.isDrawing = TRUE], p, emptyPaints)

\* stopDrawing()
stopDrawing(m) == [m EXCEPT !.isDrawing = FALSE, !.path = beginPath]

\* a canvas runs every listener set attached to it, in order
RECURSIVE StartN(_, _, _, _)
StartN(m, p, emptyPaints, n) ==
    IF n = 0 THEN m ELSE StartN(startDrawing(m, p, emptyPaints), p, emptyPaints, n - 1)

RECURSIVE DrawN(_, _, _, _)
DrawN(m, p, emptyPaints, n) ==
    IF n = 0 THEN m ELSE DrawN(draw(m, p, emptyPaints), p, emptyPaints, n - 1)

RECURSIVE StopN(_, _)
StopN(m, n) == IF n = 0 THEN m ELSE StopN(stopDrawing(m), n - 1)

\* marks on all canvases together
RECURSIVE TotalMarks(_, _)
TotalMarks(px, S) ==
    IF S = {} THEN 0
    ELSE LET i == CHOOSE j \in S : TRUE
         IN  Len(px[i]) + TotalMarks(px, S \ {i})

\* write the handlers' result back
Apply(m) ==
    /\ isDrawing' = m.isDrawing
    /\ pixels' = [pixels EXCEPT ![ctx] = m.pixels]
    /\ path' = [path EXCEPT ![ctx] = m.path]
    /\ blankExpected' = IF m.pixels # pixels[ctx] THEN blankExpected \ {ctx}
                        ELSE blankExpected
    /\ m.pixels # pixels[ctx] => TotalMarks(pixels', CanvasIds) <= MaxMarks

PointerUnchanged ==
    UNCHANGED << variant, data, DEFAULT_SETTINGS, settings, canvas, ctx,
                 toolbarEl, currentTool, nAct, pc, body, listeners, gco,
                 images, notices, consoleErrors, clock, pending,
                 initialData, lastWrite, reloaded >>

MouseDown(c, p, emptyPaints) ==
    /\ CanvasEl(c) \in body
    /\ Apply(StartN(Machine, p, emptyPaints, listeners[c]))
    /\ PointerUnchanged

MouseMove(c, p, emptyPaints) ==
    /\ CanvasEl(c) \in body
    /\ Apply(DrawN(Machine, p, emptyPaints, listeners[c]))
    /\ PointerUnchanged

MouseUp(c) ==
    /\ CanvasEl(c) \in body
    /\ Apply(StopN(Machine, listeners[c]))
    /\ PointerUnchanged

MouseOut(c) ==
    /\ CanvasEl(c) \in body
    /\ Apply(StopN(Machine, listeners[c]))
    /\ PointerUnchanged

\* ------------------------------------------------------------- activation
\* createToolbar(), the four addEventListener calls on this.canvas, the
\* appendChild of this.canvas and of the action bar / close button of
\* activation i
Mount(i) ==
    /\ toolbarEl' = i
    /\ listeners' = [listeners EXCEPT ![canvas'] = @ + 1]
    /\ body' = body \cup {ToolbarEl(i), CanvasEl(canvas'), ActionEl(i)}
    /\ pc' = [pc EXCEPT ![i] = "done"]

\* the ribbon icon callback: initializeDrawingCanvas() up to its first await
\* (snapshot variant) or to its end (settings variant)
RibbonClick ==
    /\ nAct < MaxActivations
    /\ LET i == nAct + 1
       IN  /\ nAct' = i
           /\ canvas' = i
           /\ ctx' = i
           /\ pixels' = [pixels EXCEPT ![i] = << >>]
           /\ path' = [path EXCEPT ![i] = << >>]
           /\ gco' = [gco EXCEPT ![i] = "source-over"]
           /\ blankExpected' = IF lastWrite = "clear" /\ pending = << >>
                               THEN blankExpected \cup {i}
                               ELSE blankExpected
           /\ IF variant = "settings"
              THEN Mount(i)
              ELSE /\ pc' = [pc EXCEPT ![i] = "loading"]
                   /\ UNCHANGED << toolbarEl, listeners, body >>
    /\ UNCHANGED << variant, data, DEFAULT_SETTINGS, settings, isDrawing,
                    currentTool, images, notices, consoleErrors, clock,
                    pending, initialData, lastWrite, reloaded >>

\* snapshot variant: loadData() settles (ok) or rejects, loadDrawing()
\* finishes and initializeDrawingCanvas() continues to its end
LoadDrawingResume(i, ok) ==
    /\ variant = "snapshot"
    /\ pc[i] = "loading"
    /\ IF ok
       THEN /\ images' = IF HasDrawing(data)
                         THEN images \cup {[by |-> i, src |-> data.drawing]}
                         ELSE images
            /\ UNCHANGED consoleErrors
       ELSE /\ consoleErrors' = consoleErrors \cup {"Failed to load drawing:"}
            /\ UNCHANGED images
    /\ UNCHANGED canvas
    /\ Mount(i)
    /\ UNCHANGED << variant, data, DEFAULT_SETTINGS, settings, ctx, isDrawing,
                    currentTool, nAct, pixels, path, gco, notices, clock,
                    pending, initialData, lastWrite, reloaded, blankExpected >>

\* img.onload of loadDrawing: clearRect and drawImage on this.ctx
ImageOnload(img) ==
    /\ img \in images
    /\ images' = images \ {img}
    /\ pixels' = [pixels EXCEPT
                     ![ctx] = drawImage(clearRect(@), img.src, gco[ctx])]
    /\ UNCHANGED << variant, data, DEFAULT_SETTINGS, settings, canvas, ctx,
                    toolbarEl, isDrawing, currentTool, nAct, pc, body,
                    listeners, path, gco, notices, consoleErrors, clock,
                    pending, initialData, lastWrite, reloaded, blankExpected >>

\* ---------------------------------------------------------------- toolbar
ToolbarUnchanged ==
    UNCHANGED << variant, data, DEFAULT_SETTINGS, canvas, ctx, toolbarEl,
                 isDrawing, nAct, pc, body, listeners, pixels, path, images,
                 notices, consoleErrors, clock, pending, initialData,
                 lastWrite, reloaded, blankExpected >>

\* click on the pen button of toolbar t
PenButton(t) ==
    /\ ToolbarEl(t) \in body
    /\ currentTool' = "pen"
    /\ gco' = [gco EXCEPT ![ctx] = "source-over"]
    /\ UNCHANGED settings
    /\ ToolbarUnchanged

\* click on the eraser button of toolbar t
EraserButton(t) ==
    /\ ToolbarEl(t) \in body
    /\ currentTool' = "eraser"
    /\ gco' = [gco EXCEPT ![ctx] = "destination-out"]
    /\ UNCHANGED settings
    /\ ToolbarUnchanged

\* change event of the colour picker of toolbar t
ColorPickerChange(t, c) ==
    /\ ToolbarEl(t) \in body
    /\ settings' = [settings EXCEPT !.penColor = c]
    /\ UNCHANGED << currentTool, gco >>
    /\ ToolbarUnchanged

\* input event of the width slider of toolbar t
PenWidthInput(t, w) ==
    /\ ToolbarEl(t) \in body
    /\ settings' = [settings EXCEPT !.penWidth = w]
    /\ UNCHANGED << currentTool, gco >>
    /\ ToolbarUnchanged

\* ---------------------------------------------------------- save and close
\* new Obsidian.Notice(msg): the notifications shown afterwards
Notice(shown, msg) == IF ObsidianBound THEN shown \cup {msg} ELSE shown

\* this.saveData(record): the host takes the record as it is at the call and
\* returns a promise; the caller is suspended until the promise settles
saveData(queue, by, record) == Append(queue, [by |-> by, record |-> record])

\* the oldest saveData call in flight settles: storage holds its record if
\* it resolved (ok) and is untouched if it rejected
SaveDataSettles(by, ok) ==
    /\ pending # << >>
    /\ Head(pending).by = by
    /\ pending' = Tail(pending)
    /\ data' = IF ok THEN Head(pending).record ELSE data
    /\ lastWrite' = IF ok THEN by ELSE lastWrite
    /\ reloaded' = (~ok /\ reloaded)

\* saveDrawing() after saveData settled (ok) or rejected: the try block
\* fails if saveData rejects or the Notice cannot be constructed; the catch
\* block logs and constructs a Notice itself, which may throw out of it.
saveDrawing(ok) ==
    LET tryFailed == ~ok \/ ~ObsidianBound
    IN  [notices |-> IF tryFailed
                     THEN Notice(notices, "Failed to save drawing")
                     ELSE Notice(notices, "Drawing saved successfully!"),
         consoleErrors |-> IF tryFailed
                           THEN consoleErrors \cup {"Failed to save drawing:"}
                           ELSE consoleErrors,
         rejected |-> tryFailed /\ ~ObsidianBound]

\* click on the Save button of action bar b (snapshot variant): saveDrawing()
\* up to its await
SaveButton(b) ==
    /\ variant = "snapshot"
    /\ ActionEl(b) \in body
    /\ clock < MaxClock
    /\ Len(pending) < MaxPending
    /\ clock' = clock + 1
    /\ pending' = saveData(pending, "saveDrawing",
                           SnapshotRecord(toDataURL(pixels[canvas]), clock'))
    /\ blankExpected' = {}
    /\ UNCHANGED << variant, data, DEFAULT_SETTINGS, settings, canvas, ctx,
                    toolbarEl, isDrawing, currentTool, nAct, pc, body,
                    listeners, pixels, path, gco, images, notices,
                    consoleErrors, initialData, lastWrite, reloaded >>

\* the saveData call of saveDrawing() settles and saveDrawing() runs to its
\* end
SaveDrawingSettle(ok) ==
    /\ SaveDataSettles("saveDrawing", ok)
    /\ LET r == saveDrawing(ok)
       IN  /\ notices' = r.notices
           /\ consoleErrors' = r.consoleErrors
    /\ UNCHANGED << variant, DEFAULT_SETTINGS, settings, canvas, ctx, toolbarEl,
                    isDrawing, currentTool, nAct, pc, body, listeners, pixels,
                    path, gco, images, clock, initialData, blankExpected >>

\* document.body.removeChild(el): NotFoundError if el is not a child
removeChild(r, el) ==
    IF r.threw THEN r
    ELSE IF el \in r.body THEN [r EXCEPT !.body = @ \ {el}]
    ELSE [r EXCEPT !.threw = TRUE]

\* the Close click handler of activation b: its three removeChild calls
closeHandler(b) ==
    removeChild(removeChild(removeChild([body |-> body, threw |-> FALSE],
                                        CanvasEl(canvas)),
                            ToolbarEl(toolbarEl)),
                ActionEl(b))

\* click on the Close button of activation b
CloseButton(b) ==
    /\ ActionEl(b) \in body
    /\ body' = closeHandler(b).body
    /\ UNCHANGED << variant, data, DEFAULT_SETTINGS, settings, canvas, ctx,
                    toolbarEl, isDrawing, currentTool, nAct, pc, listeners,
                    pixels, path, gco, images, notices, consoleErrors, clock,
                    pending, initialData, lastWrite, reloaded, blankExpected >>

\* --------------------------------------------------------- settings tab
\* snapshot variant: click on the Clear Drawing button, the onClick handler
\* up to its await
ClearDrawing ==
    /\ variant = "snapshot"
    /\ Len(pending) < MaxPending
    /\ pending' = saveData(pending, "clear", Null)
    /\ UNCHANGED << variant, data, DEFAULT_SETTINGS, settings, canvas, ctx,
                    toolbarEl, isDrawing, currentTool, nAct, pc, body,
                    listeners, pixels, path, gco, images, notices,
                    consoleErrors, clock, initialData, lastWrite, reloaded,
                    blankExpected >>

\* saveData(null) settles and the onClick handler constructs its Notice
ClearDrawingSettle(ok) ==
    /\ SaveDataSettles("clear", ok)
    /\ notices' = IF ok THEN Notice(notices, "Saved drawing has been cleared")
                  ELSE notices
    /\ UNCHANGED << variant, DEFAULT_SETTINGS, settings, canvas, ctx, toolbarEl,
                    isDrawing, currentTool, nAct, pc, body, listeners, pixels,
                    path, gco, images, consoleErrors, clock, initialData,
                    blankExpected >>

\* settings variant: onChange of a settings-tab control sets one field of
\* plugin.settings and calls saveSettings(), which runs up to its await
PanelChange(k, v) ==
    /\ variant = "settings"
    /\ Len(pending) < MaxPending
    /\ settings' = [settings EXCEPT ![k] = v]
    /\ pending' = saveData(pending, "saveSettings", saveSettings(settings'))
    /\ UNCHANGED << variant, data, DEFAULT_SETTINGS, canvas, ctx, toolbarEl,
                    isDrawing, currentTool, nAct, pc, body, listeners, pixels,
                    path, gco, images, notices, consoleErrors, clock,
                    initialData, lastWrite, reloaded, blankExpected >>

PanelPenColor(c) == PanelChange("penColor", c)

PanelPenWidth(w) == PanelChange("penWidth", w)

PanelShowToolbar(b) == PanelChange("showToolbar", b)

\* the saveData call of saveSettings() settles; nothing runs after it
SaveSettingsSettle(ok) ==
    /\ SaveDataSettles("saveSettings", ok)
    /\ UNCHANGED << variant, DEFAULT_SETTINGS, settings, canvas, ctx, toolbarEl,
                    isDrawing, currentTool, nAct, pc, body, listeners, pixels,
                    path, gco, images, notices, consoleErrors, clock,
                    initialData, blankExpected >>

\* ------------------------------------------------------- plugin instance
\* the fields of the first plugin instance and its document, before onload
Fresh ==
    /\ canvas = 0
    /\ ctx = 0
    /\ toolbarEl = 0
    /\ isDrawing = FALSE
    /\ currentTool = IF variant = "settings" THEN "pen" ELSE "undefined"
    /\ nAct = 0
    /\ pc = [i \in CanvasIds |-> "none"]
    /\ body = {}
    /\ listeners = [i \in CanvasIds |-> 0]
    /\ pixels = [i \in CanvasIds |-> << >>]
    /\ path = [i \in CanvasIds |-> << >>]
    /\ gco = [i \in CanvasIds |-> "source-over"]
    /\ images = {}
    /\ notices = {}
    /\ consoleErrors = {}
    /\ blankExpected = {}

\* a snapshot record saved by an earlier session
SampleSnapshot ==
    [drawing |-> toDataURL(<< Mark(1, 2, "#000000", 2, "source-over") >>),
     timestamp |-> 0]

\* onload() of the first plugin instance over the stored record r
Start(r) ==
    /\ variant \in {"snapshot", "settings"}
    /\ data = r
    /\ initialData = r
    /\ LET l == loadSettings(InitialDefaults, r)
       IN  /\ settings = l.settings
           /\ DEFAULT_SETTINGS = l.defaults
    /\ Fresh
    /\ clock = 0
    /\ pending = << >>
    /\ lastWrite = "none"
    /\ reloaded = FALSE

\* the plugin is reloaded with the application: a fresh instance in a fresh
\* document runs onload() over the same host storage; writes still in
\* flight when the application went down are lost
Onload ==
    /\ LET l == loadSettings(InitialDefaults, data)
       IN  /\ settings' = l.settings
           /\ DEFAULT_SETTINGS' = l.defaults
    /\ canvas' = 0
    /\ ctx' = 0
    /\ toolbarEl' = 0
    /\ isDrawing' = FALSE
    /\ currentTool' = IF variant = "settings" THEN "pen" ELSE "undefined"
    /\ nAct' = 0
    /\ pc' = [i \in CanvasIds |-> "none"]
    /\ body' = {}
    /\ listeners' = [i \in CanvasIds |-> 0]
    /\ pixels' = [i \in CanvasIds |-> << >>]
    /\ path' = [i \in CanvasIds |-> << >>]
    /\ gco' = [i \in CanvasIds |-> "source-over"]
    /\ images' = {}
    /\ notices' = {}
    /\ consoleErrors' = {}
    /\ blankExpected' = {}
    /\ pending' = << >>
    /\ reloaded' = TRUE
    /\ UNCHANGED << variant, data, clock, initialData, lastWrite >>

\* ---------------------------------------------------------- specifications
Pointer ==
    \E c \in CanvasIds :
        \/ \E p \in Points, e \in BOOLEAN : MouseDown(c, p, e)
        \/ \E p \in Points, e \in BOOLEAN : MouseMove(c, p, e)
        \/ MouseUp(c)
        \/ MouseOut(c)

Activation ==
    \/ RibbonClick
    \/ \E i \in CanvasIds, ok \in BOOLEAN : LoadDrawingResume(i, ok)

Tools ==
    \/ \E t \in CanvasIds : PenButton(t)
    \/ \E t \in CanvasIds : EraserButton(t)

Pickers ==
    \/ \E t \in CanvasIds, c \in Colors : ColorPickerChange(t, c)
    \/ \E t \in CanvasIds, w \in Widths : PenWidthInput(t, w)

Close == \E b \in CanvasIds : CloseButton(b)

ImageLoad == \E img \in images : ImageOnload(img)

Snapshots ==
    \/ \E b \in CanvasIds : SaveButton(b)
    \/ \E ok \in BOOLEAN : SaveDrawingSettle(ok)
    \/ ClearDrawing
    \/ \E ok \in BOOLEAN : ClearDrawingSettle(ok)

Panel ==
    \/ \E c \in Colors : PanelPenColor(c)
    \/ \E w \in Widths : PanelPenWidth(w)
    \/ \E b \in BOOLEAN : PanelShowToolbar(b)
    \/ \E ok \in BOOLEAN : SaveSettingsSettle(ok)

\* Spec: the overlay of the settings variant: activation, pointer events,
\* toolbar and Close.  The settings tab of this variant is in SpecStore.
Init == (\E r \in {Null, SampleSnapshot} : Start(r)) /\ variant = "settings"

Next == RibbonClick \/ Pointer \/ Tools \/ Pickers \/ Close

Spec == Init /\ [][Next]_vars

\* SpecSnapshot: the snapshot variant: activation with its asynchronous
\* load, image load, pointer events, tool buttons, Save, Clear Drawing and
\* Close.  Its colour picker and width slider are in SpecStore.
InitSnapshot ==
    (\E r \in {Null, SampleSnapshot} : Start(r)) /\ variant = "snapshot"

NextSnapshot ==
    Activation \/ Pointer \/ Tools \/ ImageLoad \/ Snapshots \/ Close

SpecSnapshot == InitSnapshot /\ [][NextSnapshot]_vars

\* SpecStore: both variants, everything that writes the host record or the
\* live settings (activation mounts the controls that do), over every stored
\* record, across plugin reloads
InitStore == \E r \in PartialRecords \cup {Null, SampleSnapshot} : Start(r)

NextStore == Activation \/ Pickers \/ Snapshots \/ Panel \/ Onload

SpecStore == InitStore /\ [][NextStore]_vars

\* ------------------------------------------------------------------ claims
\* a single-point mark at p in the current pen colour and width
Dot(p) == Mark(p, p, settings.penColor, settings.penWidth, gco[ctx])

\* C1: with the overlay idle (isDrawing false, path empty), a mousedown at p
\* paints exactly one dot at p in settings.penColor and settings.penWidth,
\* and the mouseup that follows paints nothing and leaves isDrawing false.
C1_ClickLeavesDot ==
    [][ /\ \A c \in CanvasIds, p \in Points, e \in BOOLEAN :
              (MouseDown(c, p, e) /\ ~isDrawing /\ path[ctx] = << >>)
                  => pixels'[ctx] = Append(pixels[ctx], Dot(p))
        /\ \A c \in CanvasIds :
              MouseUp(c) => (~isDrawing' /\ pixels' = pixels) ]_vars

\* C2: a click on the Close button of overlay b raises no error, leaves
\* none of the canvas, toolbar and action bar of overlay b attached to the
\* document, and leaves the persisted record unchanged.
C2_CloseUnmounts ==
    [][ \A b \in CanvasIds :
            CloseButton(b) =>
                /\ ~closeHandler(b).threw
                /\ body' \cap {CanvasEl(b), ToolbarEl(b), ActionEl(b)} = {}
                /\ data' = data ]_vars

\* C3: a canvas whose activation began after Clear Drawing completed, with
\* no saveDrawing called since, is blank until the user draws on it.
C3_ClearedStaysBlank == \A c \in blankExpected : pixels[c] = << >>

\* C4: saveSettings() hands the live settings to storage; when that write
\* has landed, loadSettings over the stored record gives back the settings
\* that were saved, and onload() of a fresh instance whose storage was last
\* written by saveSettings() yields live settings equal, field by field, to
\* the stored record.
C4_SettingsRoundTrip ==
    [][ /\ (\/ \E c \in Colors : PanelPenColor(c)
            \/ \E w \in Widths : PanelPenWidth(w)
            \/ \E b \in BOOLEAN : PanelShowToolbar(b))
              => pending'[Len(pending')].record = settings'
        /\ SaveSettingsSettle(TRUE)
              => loadSettings(InitialDefaults, data').settings
                    = Head(pending).record
        /\ (Onload /\ lastWrite = "saveSettings")
              => (/\ DOMAIN settings' = DOMAIN data
                  /\ \A k \in DOMAIN data : settings'[k] = data[k]) ]_vars

\* C4 witness: a fresh instance has loaded what saveSettings() stored, with
\* pen width and toolbar visibility changed from their defaults.
C4_Witness ==
    /\ variant = "settings"
    /\ lastWrite = "saveSettings"
    /\ reloaded
    /\ nAct = 0
    /\ initialData = Null
    /\ settings.penWidth = 5
    /\ settings.showToolbar = FALSE
    /\ settings = data

\* C5: while isDrawing is true a mousemove to q paints exactly one segment,
\* from the recorded pointer position to q, in the colour and width the live
\* settings hold at that moment; while isDrawing is false it paints nothing;
\* a toolbar colour or width change repaints nothing.
C5_SegmentsUseLiveSettings ==
    [][ /\ \A c \in CanvasIds, q \in Points, e \in BOOLEAN :
              MouseMove(c, q, e) =>
                  IF isDrawing
                  THEN /\ path[ctx] # << >>
                       /\ pixels'[ctx] =
                            Append(pixels[ctx],
                                   Mark(path[ctx][1], q, settings.penColor,
                                        settings.penWidth, gco[ctx]))
                  ELSE pixels' = pixels
        /\ \A t \in CanvasIds, c \in Colors :
              ColorPickerChange(t, c) => pixels' = pixels
        /\ \A t \in CanvasIds, w \in Widths :
              PenWidthInput(t, w) => pixels' = pixels ]_vars

\* C6: when its saveData call settles, saveDrawing shows the success
\* notification if the call resolved, logs and shows the failure notification
\* if it rejected, never rejects itself, and leaves the overlay mounted with
\* canvas content, isDrawing and currentTool unchanged.
C6_SaveReportsOutcome ==
    [][ \A ok \in BOOLEAN :
            SaveDrawingSettle(ok) =>
                /\ ~saveDrawing(ok).rejected
                /\ ok => "Drawing saved successfully!" \in notices'
                /\ ~ok => /\ "Failed to save drawing:" \in consoleErrors'
                          /\ "Failed to save drawing" \in notices'
                /\ body' = body
                /\ pixels' = pixels
                /\ isDrawing' = isDrawing
                /\ currentTool' = currentTool ]_vars

\* C7: the saved snapshot is on the canvas before the pointer listeners are
\* attached, so the background image never loads over a canvas that already
\* carries marks.
C7_BackgroundBeforeStrokes ==
    [][ \A img \in images :
            ImageOnload(img) => pixels[ctx] = << >> ]_vars

\* the tool a first activation starts with
FirstTool == IF variant = "settings" THEN "pen" ELSE "undefined"

\* C8: every activation starts from the transient draw state of a first
\* activation (isDrawing false, the initial tool, normal paint, empty path),
\* and at all times currentTool is eraser exactly when the compositing mode
\* of the context is erase-by-clearing.
C8_FreshTransientState ==
    /\ [](ctx # 0 => (currentTool = "eraser" <=> gco[ctx] = "destination-out"))
    /\ [][ RibbonClick =>
              /\ ~isDrawing'
              /\ currentTool' = FirstTool
              /\ gco'[ctx'] = "source-over"
              /\ path'[ctx'] = << >> ]_vars

\* C9: onload() over a stored record that is null or has only settings keys
\* yields live settings with exactly the four default keys, the stored value
\* for each stored key and the default for every other key, and leaves
\* DEFAULT_SETTINGS as the module defined it.
C9_LoadMergesOverDefaults ==
    [][ Onload =>
          /\ DEFAULT_SETTINGS' = InitialDefaults
          /\ Keys(data) \subseteq SettingKeys =>
                /\ DOMAIN settings' = SettingKeys
                /\ \A k \in SettingKeys :
                      settings'[k] = IF k \in Keys(data) THEN data[k]
                                     ELSE InitialDefaults[k] ]_vars

\* C9 witness: a fresh instance has loaded a record that stores two of the
\* four keys; those two carry the stored values, the others the defaults.
C9_Witness ==
    /\ reloaded
    /\ nAct = 0
    /\ lastWrite = "none"
    /\ Keys(data) = {"penColor", "showToolbar"}
    /\ settings = [penColor |-> "#ff0000", penWidth |-> 2,
                   eraserSize |-> 10, showToolbar |-> FALSE]

SnapshotKeys == {"drawing", "timestamp"}

\* C10: in the snapshot variant the persisted record is the initial record
\* until the first write, null after Clear Drawing and exactly
\* {drawing, timestamp} after saveDrawing; a fresh instance loading after a
\* saveDrawing has the four default settings values plus drawing and
\* timestamp in its live settings.
C10_WholeRecordWrites ==
    variant = "snapshot" =>
        /\ lastWrite \in {"none", "clear", "saveDrawing"}
        /\ lastWrite = "none" => data = initialData
        /\ lastWrite = "clear" => data = Null
        /\ lastWrite = "saveDrawing" => DOMAIN data = SnapshotKeys
        /\ (lastWrite = "saveDrawing" /\ reloaded /\ nAct = 0) =>
              /\ DOMAIN settings = SettingKeys \cup SnapshotKeys
              /\ \A k \in SettingKeys : settings[k] = InitialDefaults[k]
              /\ \A k \in SnapshotKeys : settings[k] = data[k]

\* C10 witness: storage held a pen colour before a saveDrawing; the fresh
\* instance loaded afterwards has the default pen colour and the snapshot.
C10_Witness ==
    /\ variant = "snapshot"
    /\ lastWrite = "saveDrawing"
    /\ reloaded
    /\ nAct = 0
    /\ Keys(initialData) = {"penColor", "penWidth"}
    /\ settings.penColor = "#000000"
    /\ "drawing" \in DOMAIN settings

====
